---- MODULE Spec2Model ----
(***************************************************************************)
(* QuickTick: a virtual clock whose published duration is recomputed by a  *)
(* background goroutine on every tick and read lock-free by Now().         *)
(*                                                                         *)
(* Time is counted in whole milliseconds.  "loop" is the background        *)
(* goroutine (run / runWithContext); the callers are goroutines of the     *)
(* application, each calling Now, Reset and Stop in any order.             *)
(***************************************************************************)
EXTENDS Integers, FiniteSets, Sequences, TLC

\* ---------------------------------------------------------------- bounds
MaxTime == 2

\* time.Millisecond, the period handed to time.NewTicker
Millisecond == 1

Loop == "loop"
Callers == {"a", "b"}
Procs == {Loop} \cup Callers

\* multipliers as fractions <<numerator, denominator>>: -1.5, 0, 1.5
Multipliers == {<<-3, 2>>, <<0, 1>>, <<3, 2>>}
\* updateInterval arguments of NewCustom / NewCustomCtx
Intervals == {2 * Millisecond}
\* startTime arguments of NewCustom / NewCustomCtx (real time starts at 0)
CustomStartTimes == {-4}
Constructors == {"New", "NewCustom", "NewCtx", "NewCustomCtx"}

VARIABLES
    multiplier,       \* QuickTick.multiplier
    tickerInterval,   \* QuickTick.tickerInterval
    startTime,        \* QuickTick.startTime, the virtual epoch
    startRealTime,    \* QuickTick.startRealTime, the real epoch
    currentDuration,  \* QuickTick.currentDuration, accessed atomically
    done,             \* QuickTick.done: "open" or "closed"
    mu,               \* QuickTick.mu: the set of its holders (empty = unlocked)
    once,             \* QuickTick.once: [done |-> flag, m |-> holders of its mutex]
    ctx,              \* "none" (run), "live" or "cancelled" (runWithContext)
    pc,               \* position of every goroutine
    elapsedRealTime,  \* updateClock's local
    ticker,           \* the loop's time.Ticker
    realNow,          \* the monotonic real clock
    panicked,         \* a goroutine panicked (close of a closed channel)
    lastNow,          \* the value a Now() call has just returned (dropped by the next step)
    closeCount,       \* history: number of close(ac.done) executed
    stopReturned,     \* history: some Stop() call has returned
    lastResetEpoch,   \* history: epoch written by the latest returned Reset
    resetAfterStop,   \* history: callers inside a Reset called after a Stop returned
    zeroedAfterStop   \* history: such a Reset has returned

config == <<multiplier, tickerInterval, startTime>>
clock == <<startRealTime, currentDuration, done, mu, once>>
hist == <<closeCount, stopReturned, lastResetEpoch, resetAfterStop, zeroedAfterStop>>
vars == <<config, clock, ctx, pc, elapsedRealTime, ticker, realNow, panicked, lastNow,
          hist>>

\* ------------------------------------------------------------ pure helpers
\* int64(x): conversion of a float to an integer truncates toward zero
Trunc(n, d) == IF n >= 0 THEN n \div d ELSE -((-n) \div d)

\* int64(elapsedRealTime.Seconds() * ac.multiplier * float64(time.Second))
Accelerated(elapsed, m) == Trunc(elapsed * m[1], m[2])

\* Mutant of Since: the operands of the subtraction swapped.
MutSince(t) == t - realNow

\* time.Since(t) on the monotonic clock
Since(t) == realNow - t

\* Mutant of NowValue: the duration added to the real epoch instead of the
\* virtual one.
MutNowValue == startRealTime + currentDuration

\* ac.startTime.Add(time.Duration(currentDuration))
NowValue == startTime + currentDuration

\* ------------------------------------------------------------ construction
\* The state right after a constructor has returned: the fields are set and
\* the goroutine is spawned but has not run yet.
InitWith(k, m) ==
    /\ realNow = 0
    /\ multiplier = m
    /\ IF k \in {"New", "NewCtx"}
         THEN tickerInterval = Millisecond /\ startTime = realNow
         ELSE tickerInterval \in Intervals /\ startTime \in CustomStartTimes
    /\ ctx = IF k \in {"NewCtx", "NewCustomCtx"} THEN "live" ELSE "none"
    /\ startRealTime = realNow
    /\ currentDuration = 0
    /\ done = "open"
    /\ mu = {}
    /\ once = [done |-> FALSE, m |-> {}]
    /\ pc = [p \in Procs |-> IF p = Loop THEN "start" ELSE "idle"]
    /\ elapsedRealTime = 0
    /\ ticker = [running |-> FALSE, period |-> 0, next |-> 0, C |-> 0]
    /\ panicked = FALSE
    /\ lastNow = {}
    /\ closeCount = 0
    /\ stopReturned = FALSE
    /\ lastResetEpoch = {}
    /\ resetAfterStop = {}
    /\ zeroedAfterStop = FALSE

Init == \E k \in Constructors, m \in Multipliers : InitWith(k, m)

\* ------------------------------------------------------------ environment
\* Real time advances by one millisecond; a running ticker whose next tick is
\* due sends on its channel of capacity one (a tick is dropped when it is full).
Advance ==
    /\ realNow < MaxTime
    /\ realNow' = realNow + 1
    /\ ticker' = IF ticker.running /\ realNow + 1 >= ticker.next
                   THEN [ticker EXCEPT !.C = 1, !.next = @ + ticker.period]
                   ELSE ticker
    /\ lastNow' = {}
    /\ UNCHANGED <<config, clock, ctx, pc, elapsedRealTime, panicked, hist>>

\* The owner of the context cancels it.
Cancel ==
    /\ ctx = "live"
    /\ ctx' = "cancelled"
    /\ lastNow' = {}
    /\ UNCHANGED <<config, clock, pc, elapsedRealTime, ticker, realNow, panicked, hist>>

\* ------------------------------------------------------------ run loop
\* Mutant of NewTicker: the loop publishes a first value as it starts, before
\* any tick.
MutNewTicker ==
    /\ pc[Loop] = "start"
    /\ ticker' = [running |-> TRUE, period |-> Millisecond,
                  next |-> realNow + Millisecond, C |-> 0]
    /\ currentDuration' = Accelerated(Since(startRealTime), multiplier)
    /\ pc' = [pc EXCEPT ![Loop] = "select"]
    /\ lastNow' = {}
    /\ UNCHANGED <<config, startRealTime, done, mu, once, ctx, elapsedRealTime,
                   realNow, panicked, hist>>

\* run / runWithContext: ticker := time.NewTicker(time.Millisecond)
NewTicker ==
    /\ pc[Loop] = "start"
    /\ ticker' = [running |-> TRUE, period |-> Millisecond,
                  next |-> realNow + Millisecond, C |-> 0]
    /\ pc' = [pc EXCEPT ![Loop] = "select"]
    /\ lastNow' = {}
    /\ UNCHANGED <<config, clock, ctx, elapsedRealTime, realNow, panicked, hist>>

\* select: case <-ticker.C
SelectTick ==
    /\ pc[Loop] = "select"
    /\ ticker.C = 1
    /\ ticker' = [ticker EXCEPT !.C = 0]
    /\ pc' = [pc EXCEPT ![Loop] = "update_lock"]
    /\ lastNow' = {}
    /\ UNCHANGED <<config, clock, ctx, elapsedRealTime, realNow, panicked, hist>>

\* Mutant of SelectDone: the done case leaves the select only (a `break`), and
\* the loop goes round again.
MutSelectDone ==
    /\ pc[Loop] = "select"
    /\ done = "closed"
    /\ lastNow' = {}
    /\ UNCHANGED <<config, clock, ctx, pc, elapsedRealTime, ticker, realNow,
                   panicked, hist>>

\* select: case <-ac.done: return (deferred ticker.Stop())
SelectDone ==
    /\ pc[Loop] = "select"
    /\ done = "closed"
    /\ ticker' = [ticker EXCEPT !.running = FALSE]
    /\ pc' = [pc EXCEPT ![Loop] = "exited"]
    /\ lastNow' = {}
    /\ UNCHANGED <<config, clock, ctx, elapsedRealTime, realNow, panicked, hist>>

\* Mutant of SelectCtxDone: the loop returns on cancellation without calling
\* ac.Stop().
MutSelectCtxDone ==
    /\ pc[Loop] = "select"
    /\ ctx = "cancelled"
    /\ ticker' = [ticker EXCEPT !.running = FALSE]
    /\ pc' = [pc EXCEPT ![Loop] = "exited"]
    /\ lastNow' = {}
    /\ UNCHANGED <<config, clock, ctx, elapsedRealTime, realNow, panicked, hist>>

\* runWithContext's select: case <-ctx.Done(): the loop goes on to ac.Stop()
SelectCtxDone ==
    /\ pc[Loop] = "select"
    /\ ctx = "cancelled"
    /\ pc' = [pc EXCEPT ![Loop] = "ctx_stop"]
    /\ lastNow' = {}
    /\ UNCHANGED <<config, clock, ctx, elapsedRealTime, ticker, realNow, panicked, hist>>

\* ------------------------------------------------------------ updateClock
\* ac.mu.Lock()
UpdateLock ==
    /\ pc[Loop] = "update_lock"
    /\ mu = {}
    /\ mu' = {Loop}
    /\ pc' = [pc EXCEPT ![Loop] = "update_since"]
    /\ lastNow' = {}
    /\ UNCHANGED <<config, startRealTime, currentDuration, done, once, ctx,
                   elapsedRealTime, ticker, realNow, panicked, hist>>

\* Mutant of UpdateSince: the tick measures from the virtual epoch, which no
\* Reset moves.
MutUpdateSince ==
    /\ pc[Loop] = "update_since"
    /\ elapsedRealTime' = Since(startTime)
    /\ pc' = [pc EXCEPT ![Loop] = "update_unlock"]
    /\ lastNow' = {}
    /\ UNCHANGED <<config, clock, ctx, ticker, realNow, panicked, hist>>

\* elapsedRealTime := time.Since(ac.startRealTime)
UpdateSince ==
    /\ pc[Loop] = "update_since"
    /\ elapsedRealTime' = Since(startRealTime)
    /\ pc' = [pc EXCEPT ![Loop] = "update_unlock"]
    /\ lastNow' = {}
    /\ UNCHANGED <<config, clock, ctx, ticker, realNow, panicked, hist>>

\* ac.mu.Unlock()
UpdateUnlock ==
    /\ pc[Loop] = "update_unlock"
    /\ mu' = {}
    /\ pc' = [pc EXCEPT ![Loop] = "update_store"]
    /\ lastNow' = {}
    /\ UNCHANGED <<config, startRealTime, currentDuration, done, once, ctx,
                   elapsedRealTime, ticker, realNow, panicked, hist>>

\* Mutant of UpdateStore: the tick adds its value to the published duration
\* instead of replacing it.
MutUpdateStore ==
    /\ pc[Loop] = "update_store"
    /\ currentDuration' = currentDuration + Accelerated(elapsedRealTime, multiplier)
    /\ elapsedRealTime' = 0
    /\ pc' = [pc EXCEPT ![Loop] = "select"]
    /\ lastNow' = {}
    /\ UNCHANGED <<config, startRealTime, done, mu, once, ctx, ticker, realNow,
                   panicked, hist>>

\* atomic.StoreInt64(&ac.currentDuration, int64(acceleratedElapsedTime*float64(time.Second)))
UpdateStore ==
    /\ pc[Loop] = "update_store"
    /\ currentDuration' = Accelerated(elapsedRealTime, multiplier)
    /\ elapsedRealTime' = 0
    /\ pc' = [pc EXCEPT ![Loop] = "select"]
    /\ lastNow' = {}
    /\ UNCHANGED <<config, startRealTime, done, mu, once, ctx, ticker, realNow,
                   panicked, hist>>

\* ------------------------------------------------------------ Now
\* Mutant of Now: the read is made under ac.mu.
MutNow(c) ==
    /\ pc[c] = "idle"
    /\ mu = {}
    /\ lastNow' = {NowValue}
    /\ UNCHANGED <<config, clock, ctx, pc, elapsedRealTime, ticker, realNow, panicked,
                   hist>>

\* One atomic load of currentDuration, added to startTime; no lock is taken.
Now(c) ==
    /\ pc[c] = "idle"
    /\ lastNow' = {NowValue}
    /\ UNCHANGED <<config, clock, ctx, pc, elapsedRealTime, ticker, realNow, panicked,
                   hist>>

\* ------------------------------------------------------------ Stop
\* Where a goroutine stands when it calls Stop, and where it goes on return.
StopEntry(p) == IF p = Loop THEN "ctx_stop" ELSE "idle"
StopReturn(p) == IF p = Loop THEN "exited" ELSE "idle"

\* Mutant of Stop: close(ac.done) is called without the once.
MutStop(p) ==
    /\ pc[p] = StopEntry(p)
    /\ pc' = [pc EXCEPT ![p] = "once_f"]
    /\ lastNow' = {}
    /\ UNCHANGED <<config, clock, ctx, elapsedRealTime, ticker, realNow, panicked, hist>>

\* ac.once.Do(...): the fast path returns when the once is already done,
\* otherwise the caller goes for the once's mutex.
Stop(p) ==
    /\ pc[p] = StopEntry(p)
    /\ IF once.done
         THEN /\ pc' = [pc EXCEPT ![p] = StopReturn(p)]
              /\ stopReturned' = TRUE
              /\ ticker' = IF p = Loop THEN [ticker EXCEPT !.running = FALSE] ELSE ticker
         ELSE /\ pc' = [pc EXCEPT ![p] = "once_lock"]
              /\ UNCHANGED <<stopReturned, ticker>>
    /\ lastNow' = {}
    /\ UNCHANGED <<config, clock, ctx, elapsedRealTime, realNow, panicked, closeCount,
                   lastResetEpoch, resetAfterStop, zeroedAfterStop>>

\* once.Do, slow path: lock the once's mutex and look at the flag again
OnceLock(p) ==
    /\ pc[p] = "once_lock"
    /\ once.m = {}
    /\ once' = [once EXCEPT !.m = {p}]
    /\ pc' = [pc EXCEPT ![p] = IF once.done THEN "once_unlock" ELSE "once_f"]
    /\ lastNow' = {}
    /\ UNCHANGED <<config, startRealTime, currentDuration, done, mu, ctx,
                   elapsedRealTime, ticker, realNow, panicked, hist>>

\* close(ac.done): closing a closed channel panics, which ends every goroutine
StopClose(p) ==
    /\ pc[p] = "once_f"
    /\ IF done = "closed"
         THEN /\ panicked' = TRUE
              /\ pc' = [q \in Procs |-> "crashed"]
              /\ UNCHANGED done
         ELSE /\ done' = "closed"
              /\ pc' = [pc EXCEPT ![p] = "once_unlock"]
              /\ UNCHANGED panicked
    /\ closeCount' = closeCount + 1
    /\ lastNow' = {}
    /\ UNCHANGED <<config, startRealTime, currentDuration, mu, once, ctx,
                   elapsedRealTime, ticker, realNow, stopReturned,
                   lastResetEpoch, resetAfterStop, zeroedAfterStop>>

\* once.Do, slow path: set the flag, unlock the once's mutex; Stop returns
OnceUnlock(p) ==
    /\ pc[p] = "once_unlock"
    /\ once' = [done |-> TRUE, m |-> {}]
    /\ pc' = [pc EXCEPT ![p] = StopReturn(p)]
    /\ stopReturned' = TRUE
    /\ ticker' = IF p = Loop THEN [ticker EXCEPT !.running = FALSE] ELSE ticker
    /\ lastNow' = {}
    /\ UNCHANGED <<config, startRealTime, currentDuration, done, mu, ctx,
                   elapsedRealTime, realNow, panicked, closeCount,
                   lastResetEpoch, resetAfterStop, zeroedAfterStop>>

\* ------------------------------------------------------------ Reset
\* Mutant of Reset: a Reset on a clock whose loop has exited starts the loop
\* again.
MutReset(c) ==
    /\ pc[c] = "idle"
    /\ pc' = [pc EXCEPT ![c] = "reset_lock",
                        ![Loop] = IF @ = "exited" THEN "start" ELSE @]
    /\ resetAfterStop' = IF stopReturned THEN resetAfterStop \cup {c} ELSE resetAfterStop
    /\ lastNow' = {}
    /\ UNCHANGED <<config, clock, ctx, elapsedRealTime, ticker, realNow, panicked,
                   closeCount, stopReturned, lastResetEpoch, zeroedAfterStop>>

\* A caller enters Reset and goes for ac.mu.
Reset(c) ==
    /\ pc[c] = "idle"
    /\ pc' = [pc EXCEPT ![c] = "reset_lock"]
    /\ resetAfterStop' = IF stopReturned THEN resetAfterStop \cup {c} ELSE resetAfterStop
    /\ lastNow' = {}
    /\ UNCHANGED <<config, clock, ctx, elapsedRealTime, ticker, realNow, panicked,
                   closeCount, stopReturned, lastResetEpoch, zeroedAfterStop>>

\* Mutant of ResetLock: Reset goes on without waiting for the mutex.
MutResetLock(c) ==
    /\ pc[c] = "reset_lock"
    /\ mu' = mu \cup {c}
    /\ pc' = [pc EXCEPT ![c] = "reset_epoch"]
    /\ lastNow' = {}
    /\ UNCHANGED <<config, startRealTime, currentDuration, done, once, ctx,
                   elapsedRealTime, ticker, realNow, panicked, hist>>

\* ac.mu.Lock()
ResetLock(c) ==
    /\ pc[c] = "reset_lock"
    /\ mu = {}
    /\ mu' = {c}
    /\ pc' = [pc EXCEPT ![c] = "reset_epoch"]
    /\ lastNow' = {}
    /\ UNCHANGED <<config, startRealTime, currentDuration, done, once, ctx,
                   elapsedRealTime, ticker, realNow, panicked, hist>>

\* Mutant of ResetEpoch: Reset moves the virtual epoch together with the real
\* one.
MutResetEpoch(c) ==
    /\ pc[c] = "reset_epoch"
    /\ startRealTime' = realNow
    /\ startTime' = realNow
    /\ pc' = [pc EXCEPT ![c] = "reset_store"]
    /\ lastNow' = {}
    /\ UNCHANGED <<multiplier, tickerInterval, currentDuration, done, mu, once, ctx,
                   elapsedRealTime, ticker, realNow, panicked, hist>>

\* ac.startRealTime = time.Now()
ResetEpoch(c) ==
    /\ pc[c] = "reset_epoch"
    /\ startRealTime' = realNow
    /\ pc' = [pc EXCEPT ![c] = "reset_store"]
    /\ lastNow' = {}
    /\ UNCHANGED <<config, currentDuration, done, mu, once, ctx, elapsedRealTime,
                   ticker, realNow, panicked, hist>>

\* atomic.StoreInt64(&ac.currentDuration, 0)
ResetStore(c) ==
    /\ pc[c] = "reset_store"
    /\ currentDuration' = 0
    /\ pc' = [pc EXCEPT ![c] = "reset_unlock"]
    /\ lastNow' = {}
    /\ UNCHANGED <<config, startRealTime, done, mu, once, ctx, elapsedRealTime,
                   ticker, realNow, panicked, hist>>

\* Mutant of ResetUnlock: Reset returns without unlocking ac.mu.
MutResetUnlock(c) ==
    /\ pc[c] = "reset_unlock"
    /\ pc' = [pc EXCEPT ![c] = "idle"]
    /\ lastResetEpoch' = {startRealTime}
    /\ zeroedAfterStop' = (zeroedAfterStop \/ c \in resetAfterStop)
    /\ resetAfterStop' = resetAfterStop \ {c}
    /\ lastNow' = {}
    /\ UNCHANGED <<config, startRealTime, currentDuration, done, mu, once, ctx,
                   elapsedRealTime, ticker, realNow, panicked, closeCount,
                   stopReturned>>

\* deferred ac.mu.Unlock(); Reset returns
ResetUnlock(c) ==
    /\ pc[c] = "reset_unlock"
    /\ mu' = {}
    /\ pc' = [pc EXCEPT ![c] = "idle"]
    /\ lastResetEpoch' = {startRealTime}
    /\ zeroedAfterStop' = (zeroedAfterStop \/ c \in resetAfterStop)
    /\ resetAfterStop' = resetAfterStop \ {c}
    /\ lastNow' = {}
    /\ UNCHANGED <<config, startRealTime, currentDuration, done, once, ctx,
                   elapsedRealTime, ticker, realNow, panicked, closeCount,
                   stopReturned>>

\* ------------------------------------------------------------ specification
LoopStep ==
    \/ NewTicker
    \/ SelectTick
    \/ SelectDone
    \/ SelectCtxDone
    \/ UpdateLock
    \/ UpdateSince
    \/ UpdateUnlock
    \/ UpdateStore

StopStep(p) ==
    \/ OnceLock(p)
    \/ StopClose(p)
    \/ OnceUnlock(p)

ResetStep(c) ==
    \/ ResetLock(c)
    \/ ResetEpoch(c)
    \/ ResetStore(c)
    \/ ResetUnlock(c)

Next ==
    \/ Advance
    \/ Cancel
    \/ LoopStep
    \/ \E p \in Procs : Stop(p)
    \/ \E p \in Procs : StopStep(p)
    \/ \E c \in Callers : Now(c)
    \/ \E c \in Callers : Reset(c)
    \/ \E c \in Callers : ResetStep(c)

Spec == Init /\ [][Next]_vars

\* The scheduling the Go runtime gives.  A goroutine that can run does run:
\* every step inside a call or inside the loop is taken (weak fairness).  The
\* fairness of the loop is strong, because its steps can be disabled and enabled
\* again by others: sync.Mutex hands the lock to a waiter however often callers
\* lock it, and select picks among its ready cases at random, so an exit case
\* that is ready again and again is picked.  Callers owe no call.
LoopExit == SelectDone \/ SelectCtxDone
LoopBody ==
    \/ NewTicker
    \/ UpdateLock
    \/ UpdateSince
    \/ UpdateUnlock
    \/ UpdateStore
    \/ Stop(Loop)
    \/ StopStep(Loop)

Fairness ==
    /\ SF_vars(LoopExit)
    /\ SF_vars(LoopBody)
    /\ \A c \in Callers : WF_vars(StopStep(c) \/ ResetStep(c))

\* The liveness claims do not depend on the rate or on the virtual epoch: they
\* are checked for one multiplier, on a clock without and a clock with a context.
FairInit == \E k \in {"New", "NewCtx"} : InitWith(k, <<3, 2>>)

FairSpec == FairInit /\ [][Next]_vars /\ Fairness

\* Ticks that keep arriving.  Beyond MaxTime the model no longer counts the
\* milliseconds, but the ticker goes on sending on its channel as long as it
\* runs: a loop that is not told to stop never runs out of ticks.
Overtime ==
    /\ realNow = MaxTime
    /\ ticker.running
    /\ ticker.C = 0
    /\ ticker' = [ticker EXCEPT !.C = 1]
    /\ lastNow' = {}
    /\ UNCHANGED <<config, clock, ctx, pc, elapsedRealTime, realNow, panicked, hist>>

LiveNext ==
    \/ Next
    \/ Overtime

\* The clock whose ticks keep arriving, under the scheduling of Fairness.
LiveSpec == FairInit /\ [][LiveNext]_vars /\ Fairness

\* The callers under contention.  A caller waiting in ac.mu.Lock() sees the
\* mutex free again and again while others lock and unlock it; sync.Mutex
\* turns to handing the lock over to a goroutine that has waited too long, so
\* the waiter gets it: the fairness of the callers' steps is strong.  The
\* loop is asked only to go on when it can (weak fairness).
LockFairness ==
    /\ WF_vars(LoopBody)
    /\ \A c \in Callers : SF_vars(StopStep(c) \/ ResetStep(c))

LockSpec == FairInit /\ [][LiveNext]_vars /\ LockFairness

\* ================================================================ claims
ResetPcs == {"reset_lock", "reset_epoch", "reset_store", "reset_unlock"}
StopPcs == {"once_lock", "once_f", "once_unlock"}
InReset == {c \in Callers : pc[c] \in ResetPcs}

\* C1: after a Stop() call has returned, and with no Reset in progress or
\* called, no step changes the published duration, so every later Now()
\* returns the same value.
C1_FrozenAfterStop ==
    [][(stopReturned /\ InReset = {}) => currentDuration' = currentDuration]_vars

\* C2: with multiplier >= 0, once a Reset() has returned the published
\* duration is at most multiplier x (real time elapsed since the epoch that
\* Reset wrote).
C2_NoStaleValueAfterReset ==
    multiplier[1] >= 0 =>
        \A e \in lastResetEpoch : currentDuration <= Accelerated(realNow - e, multiplier)

\* C3: whatever the number of Stop() calls, by callers and by the loop on
\* cancellation, close(done) is executed at most once and nothing panics;
\* once the first Stop has completed, a Stop call changes no state.
C3_StopExactlyOnce ==
    /\ [](~panicked /\ closeCount <= 1 /\ (once.done => done = "closed"))
    /\ [][once.done => (once'.done /\ UNCHANGED <<done, closeCount>>)]_vars
    /\ [][(once.done /\ \E p \in Procs : Stop(p)) => UNCHANGED <<config, clock>>]_vars

\* C3 witness: two Stop calls overlap; one has closed the channel and the
\* other waits for the once.
C3_Witness ==
    /\ closeCount = 1
    /\ \E p, q \in Procs : p # q /\ pc[p] = "once_unlock" /\ pc[q] = "once_lock"

\* C4 as stated: after cancellation the loop exits, the channel is closed,
\* nothing panics, and from the loop's exit on the published duration never
\* changes.
C4_FrozenAfterCancel ==
    /\ (ctx = "cancelled") ~> (pc[Loop] = "exited")
    /\ [](pc[Loop] = "exited" => done = "closed")
    /\ []~panicked
    /\ [][(ctx = "cancelled" /\ pc[Loop] = "exited")
            => currentDuration' = currentDuration]_vars

\* C4 amended: after cancellation the loop eventually exits, the channel is
\* closed when it has exited (whether or not a caller called Stop), nothing
\* panics, and from the loop's exit on the published duration changes only
\* by a Reset's store of zero.
C4_CancelStops ==
    /\ (ctx = "cancelled") ~> (pc[Loop] = "exited")
    /\ [](pc[Loop] = "exited" => done = "closed")
    /\ []~panicked
    /\ [][(pc[Loop] = "exited" /\ currentDuration' # currentDuration)
            => (currentDuration' = 0 /\ \E c \in Callers : pc[c] = "reset_store")]_vars

\* C4 witness: the context was cancelled, the loop has exited through its own
\* Stop while a caller's Stop raced with it, and the value is not zero.
C4_Witness ==
    /\ ctx = "cancelled"
    /\ pc[Loop] = "exited"
    /\ done = "closed"
    /\ currentDuration # 0
    /\ \E c \in Callers : pc[c] \in StopPcs

\* C5: the loop's ticker has the configured update interval as its period.
C5_TickerPeriodIsInterval ==
    ticker.running => ticker.period = tickerInterval

\* C6: once a Reset() that was called after a Stop() had returned has itself
\* returned, the published duration is 0 in every later state.
C6_ZeroAfterStopThenReset ==
    zeroedAfterStop => currentDuration = 0

\* C7: Now() is enabled for an idle caller in every reachable state, whoever
\* holds the mutex and whether or not the clock is stopped, and it changes no
\* state of the clock.
C7_NowNeverWaits ==
    /\ [](\A c \in Callers : pc[c] = "idle" => ENABLED Now(c))
    /\ [][(\E c \in Callers : Now(c))
            => UNCHANGED <<config, clock, ctx, pc, elapsedRealTime, ticker>>]_vars

\* C7 witness: a Now() has just returned while the mutex is held and the
\* clock is stopped.
C7_Witness ==
    /\ lastNow # {}
    /\ mu # {}
    /\ done = "closed"

\* C8: the value Now() returns is the virtual epoch fixed at construction
\* plus the duration published at that moment.
C8_NowIsEpochPlusDuration ==
    /\ [](\A v \in lastNow : v = startTime + currentDuration)
    /\ [][startTime' = startTime]_vars

\* C8 witness: a Now() has just returned a time away from the epoch while a
\* tick is in flight and a Reset holds the mutex.
C8_Witness ==
    /\ lastNow # {}
    /\ currentDuration # 0
    /\ pc[Loop] = "update_store"
    /\ \E c \in Callers : pc[c] = "reset_epoch"

\* C9: once the loop has exited it stays exited, its ticker stays stopped,
\* the published duration changes only to Reset's zero, and a closed done
\* channel stays closed.
C9_NeverResumes ==
    [][/\ pc[Loop] = "exited" =>
            /\ pc'[Loop] = "exited"
            /\ ~ticker'.running
            /\ currentDuration' \in {currentDuration, 0}
       /\ done = "closed" => done' = "closed"]_vars

\* C9 witness: the loop has exited and a Reset called after the Stop has
\* stored its zero.
C9_Witness ==
    /\ pc[Loop] = "exited"
    /\ \E c \in resetAfterStop : pc[c] = "reset_unlock"

\* C10: the sign of the published duration, and of Now() relative to the
\* virtual epoch, follows the sign of the multiplier.
C10_SignFollowsMultiplier ==
    \A v \in lastNow \cup {NowValue} :
        /\ multiplier[1] > 0 => (currentDuration >= 0 /\ v >= startTime)
        /\ multiplier[1] = 0 => (currentDuration = 0 /\ v = startTime)
        /\ multiplier[1] < 0 => (currentDuration <= 0 /\ v <= startTime)

\* C10 witness: a clock running backward has published a negative duration
\* after a Reset, and Now() has just returned a time before the epoch.
C10_Witness ==
    /\ multiplier[1] < 0
    /\ currentDuration < 0
    /\ lastResetEpoch # {}
    /\ lastNow # {}

\* A step of the loop that is the store of updateClock.
TickStores == pc[Loop] = "update_store" /\ pc'[Loop] # "update_store"

\* C12: with multiplier >= 0 no tick publishes a value smaller than the value
\* published at that moment; only Reset's store of zero lowers the duration.
C12_TickNeverLowers ==
    [][(multiplier[1] >= 0 /\ TickStores) => currentDuration' >= currentDuration]_vars

\* v is x * n / d with the fraction cut off (rounded toward zero).
IsCutOff(v, x, n, d) ==
    IF x * n >= 0
      THEN d * v <= x * n /\ x * n < d * (v + 1)
      ELSE d * v >= x * n /\ x * n > d * (v - 1)

\* C13: the elapsed time of a tick is sampled under the mutex as real time
\* minus the real epoch, nobody touches it until the store, and the value the
\* tick stores is that elapsed time x multiplier cut to a whole unit, whatever
\* the value published before.
C13_TickRecomputes ==
    [][/\ (pc[Loop] = "update_since" /\ pc'[Loop] # "update_since")
            => (mu = {Loop} /\ elapsedRealTime' = realNow - startRealTime)
       /\ (pc[Loop] \in {"update_unlock", "update_store"} /\ ~TickStores)
            => elapsedRealTime' = elapsedRealTime
       /\ TickStores
            => IsCutOff(currentDuration', elapsedRealTime, multiplier[1], multiplier[2])]_vars

\* C13 witness: the tick taken at 1 ms was delayed to 2 ms and the loop has
\* stored the value of 2 ms, 1.5 x 2 = 3, over a published 0; the next tick
\* is waiting.
C13_Witness ==
    /\ multiplier = <<3, 2>>
    /\ realNow = 2
    /\ currentDuration = 3
    /\ pc[Loop] = "select"
    /\ ticker.C = 1

\* C14: a tick that takes its sample after a Reset has released the mutex
\* measures from the epoch of the last completed Reset, and the value it then
\* stores is the value of that sample: a value of an older epoch still
\* published is overwritten by it.
C14_TickUsesResetEpoch ==
    [][/\ (pc[Loop] = "update_since" /\ pc'[Loop] = "update_unlock")
            => \A e \in lastResetEpoch : elapsedRealTime' = realNow - e
       /\ TickStores
            => currentDuration' = Accelerated(elapsedRealTime, multiplier)]_vars

\* C14 witness: on a running clock a value of the old epoch is published after
\* a completed Reset, and the next tick is about to store over it the value
\* measured from the Reset's epoch.
C14_Witness ==
    /\ done = "open"
    /\ pc[Loop] = "update_store"
    /\ \E e \in lastResetEpoch :
          /\ elapsedRealTime = realNow - e
          /\ e > 0
          /\ currentDuration > Accelerated(realNow - e, multiplier)

\* The processes between ac.mu.Lock() and ac.mu.Unlock().
EpochReaders == {p \in {Loop} : pc[p] \in {"update_since", "update_unlock"}}
EpochWriters ==
    {c \in Callers : pc[c] \in {"reset_epoch", "reset_store", "reset_unlock"}}

\* C15: at most one process is between Lock and Unlock of the mutex, so a
\* tick's read of the epoch never overlaps a Reset's write and two Resets never
\* overlap; the epoch a tick is about to read is the epoch of construction or
\* the one written by the last completed Reset.
C15_EpochMutex ==
    /\ Cardinality(EpochReaders \cup EpochWriters) <= 1
    /\ EpochReaders \cup EpochWriters \subseteq mu
    /\ pc[Loop] = "update_since"
         => IF lastResetEpoch = {} THEN startRealTime = 0
                                   ELSE lastResetEpoch = {startRealTime}

\* C15 witness: the loop is about to read the epoch written by a completed
\* Reset while both callers wait in Reset for the mutex.
C15_Witness ==
    /\ pc[Loop] = "update_since"
    /\ \A c \in Callers : pc[c] = "reset_lock"
    /\ lastResetEpoch = {startRealTime}
    /\ startRealTime > 0

\* The process p takes the step of its code from position a to position b.
Moves(p, a, b) == pc[p] = a /\ pc'[p] = b

\* C17: every step belongs to one process; the real epoch is changed only by
\* Reset's assignment, the published duration only by Reset's store of zero and
\* by a tick's store, the done channel only by the close in Stop; the virtual
\* epoch, the multiplier and the update interval are changed by no step.
C17_Frame ==
    [][/\ UNCHANGED config
       /\ Cardinality({p \in Procs : pc'[p] # pc[p]}) <= 1
       /\ startRealTime' # startRealTime
            => \E c \in Callers : Moves(c, "reset_epoch", "reset_store")
       /\ currentDuration' # currentDuration
            => \/ TickStores
               \/ \E c \in Callers :
                     Moves(c, "reset_store", "reset_unlock") /\ currentDuration' = 0
       /\ done' # done
            => \E p \in Procs : Moves(p, "once_f", "once_unlock")
       /\ once'.done # once.done
            => \E p \in Procs : pc[p] = "once_unlock" /\ pc'[p] # "once_unlock"]_vars

\* C17 witness: on a clock built with its own virtual epoch a Reset has moved
\* the real epoch, a tick has published a duration and a Stop has closed the
\* done channel and returned.
C17_Witness ==
    /\ startTime \in CustomStartTimes
    /\ lastResetEpoch = {startRealTime}
    /\ startRealTime > 0
    /\ currentDuration # 0
    /\ done = "closed"
    /\ stopReturned

\* C18: a constructor returns with the loop not yet run, the callers free to
\* call, the published duration 0 and Now() at the virtual epoch; and as long as
\* the duration is 0 no step but a tick's store changes it, so every Now()
\* before the first tick's store returns exactly the virtual epoch.
C18_ZeroUntilFirstTick ==
    /\ pc[Loop] = "start"
    /\ \A c \in Callers : pc[c] = "idle"
    /\ currentDuration = 0
    /\ NowValue = startTime
    /\ [][(currentDuration = 0 /\ ~TickStores)
            => (currentDuration' = 0 /\ \A v \in lastNow' : v = startTime)]_vars

\* C18 witness: real time has passed, the loop has not run its first step, and
\* a Now() has just returned the virtual epoch.
C18_Witness ==
    /\ pc[Loop] = "start"
    /\ realNow > 0
    /\ currentDuration = 0
    /\ lastNow = {startTime}

\* C11: the mutex is held only between Lock and Unlock of updateClock and of
\* Reset, never by a process that waits in select or for a lock, and the lock
\* of the Once only inside Do; every caller is again and again out of its
\* calls (each call returns) and the mutex is again and again free (each
\* holder releases it).
C11_NoDeadlock ==
    /\ [](/\ mu \subseteq EpochReaders \cup EpochWriters
          /\ once.m \subseteq {p \in Procs : pc[p] \in {"once_f", "once_unlock"}})
    /\ \A c \in Callers : []<>(pc[c] = "idle")
    /\ []<>(mu = {})

\* C11 witness: everybody wants a lock at once: one caller holds the mutex in
\* Reset, the loop waits for it with a tick, and the other caller is in Stop.
C11_Witness ==
    /\ pc[Loop] = "update_lock"
    /\ \E c \in Callers : mu = {c}
    /\ \E c \in Callers : pc[c] \in StopPcs

\* C16: once a caller is in Stop, or the done channel is closed, the loop
\* exits, however many ticks arrive.
C16_LoopExits ==
    ((\E c \in Callers : pc[c] \in StopPcs) \/ done = "closed") ~> (pc[Loop] = "exited")

\* C16 witness: the done channel is closed and the loop, far from its select,
\* is at work on a tick that arrived beyond the horizon, with the next tick
\* already waiting.
C16_Witness ==
    /\ done = "closed"
    /\ realNow = MaxTime
    /\ pc[Loop] = "update_since"
    /\ ticker.C = 1

====
